---- MODULE Spec2Model ----
(***************************************************************************)
(* llmit: the conversation store (src/agent/conversation.rs), the Viewer   *)
(* component's action handler and the streaming completion task it spawns  *)
(* (src/components/viewer.rs).                                             *)
(*                                                                         *)
(* Rust's Option<T> is a sequence of length 0 (None) or 1 (Some(x)).       *)
(* Vec indices are 0-based in the code: element i of a Vec v is v[i + 1].  *)
(* A String is a TLA+ string; push_str is \o.                              *)
(***************************************************************************)
EXTENDS Integers, Sequences, FiniteSets, TLC

(***************************************************************************)
(* Bounds of the model.                                                    *)
(***************************************************************************)
\* how many actions the input side (keys, other components) enqueues
MaxInputs == 3
\* how many of them are SendMessage, i.e. how many tasks are spawned
MaxSessions == 2
\* how many text events the provider's streams yield at most, all together
MaxEvents == 2
\* how many actions wait in the channel at most
MaxQueue == 2
\* how many messages a Conversation built by Conversation::new holds at most
MaxLen == 3

(***************************************************************************)
(* Values.                                                                 *)
(***************************************************************************)
None == << >>
Some(x) == <<x>>

\* usize::MAX. The target's value (2^64 - 1) is above what TLC's integers
\* hold; the model keeps the largest integer TLC has. The code only compares
\* it with len() and adds 1 to it, and both come out as on the target.
USIZE_MAX == 2147483647

\* agent::message::Role
Role == {"System", "User", "Assistant"}
\* crate::mode::Mode, as matched in Viewer::update
Mode == {"Viewer", "ActiveViewer", "ModelSelector", "Input", "ActiveInput"}
\* the models a message can name
Models == {"m1"}
\* the payloads of the provider's text events
Data == {"a", "b"}
\* the bodies of the messages the user sends
UserContent == {"hi"}

\* agent::message::Message as constructed in Viewer::update
Message(role, content, status, model) ==
    [role |-> role, content |-> content, status |-> status, model |-> model]

\* an Action of the channel; sid is the task that sent it (0: the input side)
Action(type, message, mode, sid) ==
    [type |-> type, message |-> message, mode |-> mode, sid |-> sid]

(***************************************************************************)
(* Conversation (src/agent/conversation.rs).  An operation maps the        *)
(* Conversation to the Conversation after it; panicked is set when the     *)
(* operation panics, and the fields are then left as they were.            *)
(***************************************************************************)
Conversation(messages, selected_message) ==
    [messages |-> messages, selected_message |-> selected_message,
     panicked |-> FALSE]

\* Conversation::new / Default
new == Conversation(<< >>, None)

\* Vec::remove(index): panics when index >= len
remove(v, index) == SubSeq(v, 1, index) \o SubSeq(v, index + 2, Len(v))

\* Vec::pop: drops the last element, no-op on an empty Vec
pop(v) == IF Len(v) = 0 THEN v ELSE SubSeq(v, 1, Len(v) - 1)

\* len() - 1 on usize: with overflow checks (debug build) 0 - 1 panics,
\* without them (release build) it wraps to usize::MAX
select_last_message(c, overflow_checks) ==
    IF Len(c.messages) = 0
    THEN IF overflow_checks
         THEN [c EXCEPT !.panicked = TRUE]
         ELSE [c EXCEPT !.selected_message = Some(USIZE_MAX)]
    ELSE [c EXCEPT !.selected_message = Some(Len(c.messages) - 1)]

\* add_message without the select_last_message call
add_message_keeps_cursor(c, message, overflow_checks) ==
    [c EXCEPT !.messages = Append(c.messages, message)]

add_message(c, message, overflow_checks) ==
    select_last_message([c EXCEPT !.messages = Append(c.messages, message)],
                        overflow_checks)

\* replace_last_message without the pop: the message is appended
replace_last_message_appends(c, message, overflow_checks) ==
    select_last_message([c EXCEPT !.messages = Append(c.messages, message)],
                        overflow_checks)

replace_last_message(c, message, overflow_checks) ==
    select_last_message(
        [c EXCEPT !.messages = Append(pop(c.messages), message)],
        overflow_checks)

select_next_message(c, overflow_checks) ==
    IF c.selected_message # None
    THEN LET currently_selected == c.selected_message[1] IN
         IF currently_selected = USIZE_MAX /\ overflow_checks
         THEN [c EXCEPT !.panicked = TRUE]
         ELSE LET next_selected == IF currently_selected = USIZE_MAX
                                   THEN 0
                                   ELSE currently_selected + 1 IN
              IF next_selected < Len(c.messages)
              THEN [c EXCEPT !.selected_message = Some(next_selected)]
              ELSE c
    ELSE [c EXCEPT !.selected_message = Some(0)]

\* select_prev_message that leaves a missing selection missing
select_prev_message_stays_none(c) ==
    IF c.selected_message # None
    THEN LET currently_selected == c.selected_message[1] IN
         IF currently_selected > 0
         THEN [c EXCEPT !.selected_message = Some(currently_selected - 1)]
         ELSE c
    ELSE c

select_prev_message(c) ==
    IF c.selected_message # None
    THEN LET currently_selected == c.selected_message[1] IN
         IF currently_selected > 0
         THEN [c EXCEPT !.selected_message = Some(currently_selected - 1)]
         ELSE c
    ELSE [c EXCEPT !.selected_message = Some(0)]

\* delete_selected_message without the select_prev_message call
delete_selected_message_keeps_cursor(c) ==
    IF c.selected_message # None
    THEN LET selected_id == c.selected_message[1] IN
         IF selected_id >= Len(c.messages)
         THEN [c EXCEPT !.panicked = TRUE]
         ELSE [c EXCEPT !.messages = remove(c.messages, selected_id)]
    ELSE c

delete_selected_message(c) ==
    IF c.selected_message # None
    THEN LET selected_id == c.selected_message[1] IN
         IF selected_id >= Len(c.messages)
         THEN [c EXCEPT !.panicked = TRUE]
         ELSE select_prev_message(
                  [c EXCEPT !.messages = remove(c.messages, selected_id)])
    ELSE c

\* an unfocus that drops the selection, as the hook once did
unfocus_deselects(c) == [c EXCEPT !.selected_message = None]

\* Conversation::unfocus and Conversation::focus: empty bodies
unfocus(c) == c
focus(c) == c

\* get_selected_message reading one element too far
get_selected_message_off_by_one(c) ==
    IF c.selected_message # None /\ c.selected_message[1] + 1 < Len(c.messages)
    THEN [ok |-> TRUE, message |-> Some(c.messages[c.selected_message[1] + 2])]
    ELSE [ok |-> FALSE, message |-> None]

\* Ok(message.clone()) or Err("Could not retrieve message")
get_selected_message(c) ==
    IF c.selected_message # None /\ c.selected_message[1] < Len(c.messages)
    THEN [ok |-> TRUE, message |-> Some(c.messages[c.selected_message[1] + 1])]
    ELSE [ok |-> FALSE, message |-> None]

(***************************************************************************)
(* State.                                                                  *)
(***************************************************************************)
VARIABLES
    conversation,  \* Viewer.conversation
    state,         \* Viewer.state: "Active", "Focused" or "Unfocused"
    queue,         \* the channel behind Viewer.command_tx, oldest action first
    tasks,         \* the tasks spawned by SendMessage, in spawn order
    observed,      \* per task, the actions of it that update has applied
    dispatcher,    \* "running", or "panicked" once update has panicked
    inputs,        \* how many actions the input side has enqueued
    last           \* the action update applied last, and the Viewer before it

vars == <<conversation, state, queue, tasks, observed, dispatcher, inputs, last>>

\* the actions other components handle and Viewer::update ignores
OtherActions == {"SelectNextConversation", "SelectPreviousConversation",
                 "LoadSelectedConversation", "AddConversationToManager"}

\* Viewer::new(focused) with Conversation::default()
Init ==
    /\ conversation = new
    /\ \E focused \in BOOLEAN :
           state = IF focused THEN "Focused" ELSE "Unfocused"
    /\ queue = << >>
    /\ tasks = << >>
    /\ observed = << >>
    /\ dispatcher = "running"
    /\ inputs = 0
    /\ last = [action |-> Action("", None, "", 0), before |-> new,
               state |-> state]

(***************************************************************************)
(* The input side: key handling and the other components put actions on    *)
(* the channel.                                                            *)
(***************************************************************************)
Enqueue(a) == queue' = Append(queue, a)

CanEnqueue == dispatcher = "running" /\ Len(queue) < MaxQueue

CanInput == CanEnqueue /\ inputs < MaxInputs

\* SendMessage actions enqueued so far
Sends == Len(tasks) + Cardinality({i \in 1..Len(queue) : queue[i].type = "SendMessage"})

InputSelect ==
    /\ CanInput
    /\ \E type \in {"SelectNextMessage", "SelectPreviousMessage"} :
           Enqueue(Action(type, None, "", 0))
    /\ inputs' = inputs + 1
    /\ UNCHANGED <<conversation, state, tasks, observed, dispatcher, last>>

InputDelete ==
    /\ CanInput
    /\ Enqueue(Action("DeleteSelectedMessage", None, "", 0))
    /\ inputs' = inputs + 1
    /\ UNCHANGED <<conversation, state, tasks, observed, dispatcher, last>>

InputSwitchMode ==
    /\ CanInput
    /\ \E mode \in Mode : Enqueue(Action("SwitchMode", None, mode, 0))
    /\ inputs' = inputs + 1
    /\ UNCHANGED <<conversation, state, tasks, observed, dispatcher, last>>

InputSend ==
    /\ CanInput
    /\ Sends < MaxSessions
    /\ \E content \in UserContent, model \in {None} \cup {Some(m) : m \in Models} :
           Enqueue(Action("SendMessage",
                          Some(Message("User", content, None, model)), "", 0))
    /\ inputs' = inputs + 1
    /\ UNCHANGED <<conversation, state, tasks, observed, dispatcher, last>>

InputOther ==
    /\ CanInput
    /\ \E type \in OtherActions : Enqueue(Action(type, None, "", 0))
    /\ inputs' = inputs + 1
    /\ UNCHANGED <<conversation, state, tasks, observed, dispatcher, last>>

(***************************************************************************)
(* Viewer::update: the dispatcher takes the oldest action off the channel   *)
(* and applies it.  One action per match arm.                              *)
(***************************************************************************)
\* the dispatcher is about to apply an action of this type
Next_is(type) ==
    /\ dispatcher = "running"
    /\ queue # << >>
    /\ Head(queue).type = type

\* the action leaves the channel and is counted for the task that sent it
Taken ==
    /\ queue' = Tail(queue)
    /\ last' = [action |-> Head(queue), before |-> conversation,
                state |-> state]
    /\ observed' = IF Head(queue).sid = 0
                   THEN observed
                   ELSE [observed EXCEPT ![Head(queue).sid] =
                             Append(@, Head(queue))]

\* the Conversation after an operation; a panic ends the dispatcher
Becomes(c) ==
    /\ conversation' = IF c.panicked THEN conversation ELSE c
    /\ dispatcher' = IF c.panicked THEN "panicked" ELSE "running"

ReceiveMessage ==
    /\ Next_is("ReceiveMessage")
    /\ \E overflow_checks \in BOOLEAN :
           Becomes(add_message(conversation, Head(queue).message[1],
                               overflow_checks))
    /\ Taken
    /\ UNCHANGED <<state, tasks, inputs>>

StreamMessage ==
    /\ Next_is("StreamMessage")
    /\ \E overflow_checks \in BOOLEAN :
           Becomes(replace_last_message(conversation, Head(queue).message[1],
                                        overflow_checks))
    /\ Taken
    /\ UNCHANGED <<state, tasks, inputs>>

\* the Input and ActiveInput arms left empty: the state stays as it is
SwitchTo_keeps(mode) ==
    CASE mode = "Viewer" -> "Focused"
      [] mode = "ActiveViewer" -> "Active"
      [] mode = "ModelSelector" -> "Unfocused"
      [] mode = "Input" -> state
      [] mode = "ActiveInput" -> state

\* the ViewerState a mode switches to
SwitchTo(mode) ==
    CASE mode = "Viewer" -> "Focused"
      [] mode = "ActiveViewer" -> "Active"
      [] mode = "ModelSelector" -> "Unfocused"
      [] mode = "Input" -> "Unfocused"
      [] mode = "ActiveInput" -> "Unfocused"

\* the Conversation hook a mode switch calls
SwitchHook(mode, c) ==
    CASE mode = "Viewer" -> unfocus(c)
      [] mode = "ActiveViewer" -> focus(c)
      [] mode = "ModelSelector" -> unfocus(c)
      [] mode = "Input" -> c
      [] mode = "ActiveInput" -> c

SwitchMode ==
    /\ Next_is("SwitchMode")
    /\ state' = SwitchTo(Head(queue).mode)
    /\ Becomes(SwitchHook(Head(queue).mode, conversation))
    /\ Taken
    /\ UNCHANGED <<tasks, inputs>>

SelectNextMessage ==
    /\ Next_is("SelectNextMessage")
    /\ \E overflow_checks \in BOOLEAN :
           Becomes(select_next_message(conversation, overflow_checks))
    /\ Taken
    /\ UNCHANGED <<state, tasks, inputs>>

SelectPreviousMessage ==
    /\ Next_is("SelectPreviousMessage")
    /\ Becomes(select_prev_message(conversation))
    /\ Taken
    /\ UNCHANGED <<state, tasks, inputs>>

DeleteSelectedMessage ==
    /\ Next_is("DeleteSelectedMessage")
    /\ Becomes(delete_selected_message(conversation))
    /\ Taken
    /\ UNCHANGED <<state, tasks, inputs>>

\* content = data instead of content.push_str(data): the delta alone
push_str_delta(content, data) == data

\* content.push_str(data)
push_str(content, data) == content \o data

\* a placeholder that is already a finished message
placeholder_no_status(content, model) ==
    Message("Assistant", content, None, model)

\* Message { role: Assistant, content, status: Some(Starting), model: Some(model) }
placeholder(content, model) ==
    Message("Assistant", content, Some("Starting"), model)

\* Message { role: Assistant, content, status: None, model: Some(model) }
streamed(content, model) == Message("Assistant", content, None, model)

\* tokio::spawn(async move { .. }) with the clones the closure captures;
\* snapshot keeps what self.conversation.messages was when update cloned it
Spawn(message, model, messages) ==
    [pc |-> "send_user", message |-> message, model |-> model,
     messages |-> messages, content |-> "",
     events |-> << >>, emitted |-> << >>, history |-> None,
     snapshot |-> messages]

SendMessage ==
    /\ Next_is("SendMessage")
    /\ LET message == Head(queue).message[1] IN
           tasks' = Append(tasks, Spawn(message, message.model,
                                        conversation.messages))
    /\ queue' = Tail(queue)
    /\ last' = [action |-> Head(queue), before |-> conversation,
                state |-> state]
    /\ observed' = Append(observed, << >>)
    /\ UNCHANGED <<conversation, state, dispatcher, inputs>>

\* the `_ => {}` arm
Ignore ==
    /\ dispatcher = "running"
    /\ queue # << >>
    /\ Head(queue).type \in OtherActions
    /\ Taken
    /\ UNCHANGED <<conversation, state, tasks, dispatcher, inputs>>

update ==
    \/ ReceiveMessage
    \/ StreamMessage
    \/ SwitchMode
    \/ SelectNextMessage
    \/ SelectPreviousMessage
    \/ DeleteSelectedMessage
    \/ SendMessage
    \/ Ignore

(***************************************************************************)
(* The task SendMessage spawns.  pc is the await the task stands at.       *)
(***************************************************************************)
At(s, pc) == CanEnqueue /\ tasks[s].pc = pc

\* the placeholder branch taken whether or not a model is attached
after_user_always(model) == "send_placeholder"

\* `if let Some(model) = model`: where the task goes after the first send
after_user(model) ==
    IF model # None THEN "send_placeholder" ELSE "finished"

\* send(Action::ReceiveMessage(message.clone())), then `if let Some(model)`
SendUser(s) ==
    /\ At(s, "send_user")
    /\ LET a == Action("ReceiveMessage", Some(tasks[s].message), "", s) IN
       /\ Enqueue(a)
       /\ tasks' = [tasks EXCEPT
               ![s].emitted = Append(@, a),
               ![s].pc = after_user(tasks[s].model)]
    /\ UNCHANGED <<conversation, state, observed, dispatcher, inputs, last>>

\* send(Action::ReceiveMessage(Message { Assistant, "", Starting, model })),
\* then messages.push(message)
SendPlaceholder(s) ==
    /\ At(s, "send_placeholder")
    /\ LET a == Action("ReceiveMessage",
                       Some(placeholder(tasks[s].content, tasks[s].model)),
                       "", s) IN
       /\ Enqueue(a)
       /\ tasks' = [tasks EXCEPT
               ![s].emitted = Append(@, a),
               ![s].messages = Append(@, tasks[s].message),
               ![s].pc = "stream_completion"]
    /\ UNCHANGED <<conversation, state, observed, dispatcher, inputs, last>>

\* the live Conversation's messages read at the call, not the task's clone
passed_live(s) == Append(conversation.messages, tasks[s].message)

\* the `messages` argument of stream_completion: the task's own Vec
passed(s) == tasks[s].messages

\* stream_completion(&model, messages).await: Ok((status, stream)) or Err
StreamCompletion(s) ==
    /\ dispatcher = "running"
    /\ tasks[s].pc = "stream_completion"
    /\ \/ tasks' = [tasks EXCEPT ![s].history = Some(passed(s)),
                                 ![s].pc = "stream"]
       \/ tasks' = [tasks EXCEPT ![s].history = Some(passed(s)),
                                 ![s].pc = "panicked"]
    /\ UNCHANGED <<conversation, state, queue, observed, dispatcher, inputs,
                   last>>

\* the text events the task has read
TextEvents(events) == {i \in 1..Len(events) : events[i].event = "output"}

\* the text events the first n tasks have read
RECURSIVE Yielded(_)
Yielded(n) ==
    IF n = 0 THEN 0
    ELSE Yielded(n - 1) + Cardinality(TextEvents(tasks[n].events))

\* stream.next().await yields Ok(event) with event.event != "done":
\* content.push_str(data), send(Action::StreamMessage(..))
StreamText(s) ==
    /\ At(s, "stream")
    /\ Yielded(Len(tasks)) < MaxEvents
    /\ \E data \in Data :
        LET content == push_str(tasks[s].content, data)
            a == Action("StreamMessage",
                        Some(streamed(content, tasks[s].model)), "", s) IN
        /\ Enqueue(a)
        /\ tasks' = [tasks EXCEPT
                ![s].events = Append(@, [event |-> "output", data |-> data]),
                ![s].content = content,
                ![s].emitted = Append(@, a)]
    /\ UNCHANGED <<conversation, state, observed, dispatcher, inputs, last>>

\* stream.next().await yields the "done" event (break) or None (the stream
\* is over): the loop and the task end
StreamDone(s) ==
    /\ dispatcher = "running"
    /\ tasks[s].pc = "stream"
    /\ \/ tasks' = [tasks EXCEPT
               ![s].events = Append(@, [event |-> "done", data |-> ""]),
               ![s].pc = "finished"]
       \/ tasks' = [tasks EXCEPT
               ![s].pc = "finished"]
    /\ UNCHANGED <<conversation, state, queue, observed, dispatcher, inputs,
                   last>>

\* stream.next().await yields Err(err): panic!
StreamError(s) ==
    /\ dispatcher = "running"
    /\ tasks[s].pc = "stream"
    /\ tasks' = [tasks EXCEPT
            ![s].events = Append(@, [event |-> "error", data |-> ""]),
            ![s].pc = "panicked"]
    /\ UNCHANGED <<conversation, state, queue, observed, dispatcher, inputs,
                   last>>

Task ==
    \E s \in 1..Len(tasks) :
        \/ SendUser(s)
        \/ SendPlaceholder(s)
        \/ StreamCompletion(s)
        \/ StreamText(s)
        \/ StreamDone(s)
        \/ StreamError(s)

\* the message actions: what the keys and the tasks do to the Conversation
Next ==
    \/ InputSelect
    \/ InputDelete
    \/ InputSend
    \/ ReceiveMessage
    \/ StreamMessage
    \/ SelectNextMessage
    \/ SelectPreviousMessage
    \/ DeleteSelectedMessage
    \/ SendMessage
    \/ Task

Spec == Init /\ [][Next]_vars

\* every action of the channel, mode switches and ignored actions included
NextAll ==
    \/ InputSelect
    \/ InputDelete
    \/ InputSwitchMode
    \/ InputSend
    \/ InputOther
    \/ update
    \/ Task

SpecAll == Init /\ [][NextAll]_vars

(***************************************************************************)
(* Undisturbed sessions: the input side sends a message only when the      *)
(* channel is empty and every earlier task has ended, and does nothing     *)
(* else.                                                                   *)
(***************************************************************************)
Ended(s) == tasks[s].pc \in {"finished", "panicked"}

InputSendQuiet ==
    /\ queue = << >>
    /\ \A s \in 1..Len(tasks) : Ended(s)
    /\ InputSend

NextSolo ==
    \/ InputSendQuiet
    \/ ReceiveMessage
    \/ StreamMessage
    \/ SendMessage
    \/ Task

SpecSolo == Init /\ [][NextSolo]_vars

(***************************************************************************)
(* The Conversation on its own: a Conversation::new(messages) and a caller *)
(* that calls its methods in any order.  A panic of a call ends the run.   *)
(***************************************************************************)
\* the messages a Conversation is built from
SomeMessages == {Message("User", "hi", None, None),
                 Message("Assistant", "a", None, Some("m1"))}

InitConv ==
    /\ \E n \in 0..MaxLen : \E messages \in [1..n -> SomeMessages] :
           conversation = Conversation(messages, None)
    /\ state = "Unfocused"
    /\ queue = << >>
    /\ tasks = << >>
    /\ observed = << >>
    /\ dispatcher = "running"
    /\ inputs = 0
    /\ last = [action |-> Action("", None, "", 0), before |-> conversation,
               state |-> state, result |-> None]

\* a call of `method` that gave `result`
Call(method, result) ==
    /\ dispatcher = "running"
    /\ last' = [action |-> Action(method, None, "", 0),
                before |-> conversation, state |-> state, result |-> result]
    /\ UNCHANGED <<state, queue, tasks, observed, inputs>>

CallSelectNext ==
    /\ \E overflow_checks \in BOOLEAN :
           Becomes(select_next_message(conversation, overflow_checks))
    /\ Call("select_next_message", None)

CallSelectPrev ==
    /\ Becomes(select_prev_message(conversation))
    /\ Call("select_prev_message", None)

CallDelete ==
    /\ Becomes(delete_selected_message(conversation))
    /\ Call("delete_selected_message", None)

CallAdd ==
    /\ Len(conversation.messages) < MaxLen
    /\ \E message \in SomeMessages, overflow_checks \in BOOLEAN :
           Becomes(add_message(conversation, message, overflow_checks))
    /\ Call("add_message", None)

CallGet ==
    /\ Becomes(conversation)
    /\ Call("get_selected_message", Some(get_selected_message(conversation)))

NextConv ==
    \/ CallSelectNext
    \/ CallSelectPrev
    \/ CallDelete
    \/ CallAdd
    \/ CallGet

SpecConv == InitConv /\ [][NextConv]_vars

(***************************************************************************)
(* Properties.                                                             *)
(***************************************************************************)
\* the selection is None or an index of messages
InRange(c) ==
    c.selected_message = None \/ c.selected_message[1] < Len(c.messages)

\* update has just applied an action of this type
Applied(type) == last.action.type = type

\* C1: select_next_message / select_prev_message on a Conversation whose
\* selection is None or in range leave the selection None or in [0, N),
\* and None if and only if N = 0.
C1_SelectionStaysValid ==
    ((Applied("SelectNextMessage") \/ Applied("SelectPreviousMessage"))
        /\ InRange(last.before))
    => /\ dispatcher = "running"
       /\ InRange(conversation)
       /\ (conversation.selected_message = None
              <=> Len(conversation.messages) = 0)

\* C2: whatever actions update has applied, it has not panicked and the
\* selection is None or an index strictly below len(messages).
C2_NoPanicValidSelection ==
    dispatcher = "running" /\ InRange(conversation)

\* C3: delete_selected_message on a Conversation of exactly one message,
\* that message selected, leaves messages = [] and selected_message = None.
C3_DeleteLastClearsSelection ==
    (Applied("DeleteSelectedMessage")
        /\ Len(last.before.messages) = 1
        /\ last.before.selected_message = Some(0))
    => /\ dispatcher = "running"
       /\ conversation.messages = << >>
       /\ conversation.selected_message = None

\* C4: delete_selected_message with N >= 2 messages and a selection i in
\* range removes exactly element i, keeps the others in order and selects
\* i - 1 (0 when i = 0); with no selection it changes nothing.
C4_DeleteRemovesSelected ==
    Applied("DeleteSelectedMessage") =>
        LET before == last.before
            N == Len(before.messages) IN
        /\ before.selected_message = None
              => dispatcher = "running" /\ conversation = before
        /\ (N >= 2 /\ before.selected_message # None
                   /\ before.selected_message[1] < N)
              => LET i == before.selected_message[1] IN
                 /\ dispatcher = "running"
                 /\ conversation.messages =
                        [k \in 1..(N - 1) |->
                            IF k <= i THEN before.messages[k]
                                      ELSE before.messages[k + 1]]
                 /\ conversation.selected_message =
                        Some(IF i > 0 THEN i - 1 ELSE 0)

\* the spec's scenario: selection 2 of 3 messages deleted, selection now 1
C4_Witness ==
    /\ Applied("DeleteSelectedMessage")
    /\ dispatcher = "running"
    /\ Len(last.before.messages) = 3
    /\ last.before.selected_message = Some(2)
    /\ Len(conversation.messages) = 2
    /\ conversation.selected_message = Some(1)

\* C5: add_message(m) appends m as the final element, leaves the earlier
\* messages as they were and selects the new last index.
C5_AddAppendsAndSelectsLast ==
    Applied("ReceiveMessage") =>
        /\ dispatcher = "running"
        /\ Len(conversation.messages) = Len(last.before.messages) + 1
        /\ \A k \in 1..Len(last.before.messages) :
               conversation.messages[k] = last.before.messages[k]
        /\ conversation.messages[Len(conversation.messages)]
               = last.action.message[1]
        /\ conversation.selected_message
               = Some(Len(conversation.messages) - 1)

\* a message added while the cursor stood on an earlier message
C5_Witness ==
    /\ Applied("ReceiveMessage")
    /\ Len(last.before.messages) = 2
    /\ last.before.selected_message = Some(0)
    /\ conversation.selected_message = Some(2)

\* C6: a StreamMessage action never changes len(messages); the elements
\* before the final one are unchanged and the final one is selected.
C6_ReplaceKeepsLength ==
    Applied("StreamMessage") =>
        /\ dispatcher = "running"
        /\ Len(conversation.messages) = Len(last.before.messages)
        /\ \A k \in 1..(Len(last.before.messages) - 1) :
               conversation.messages[k] = last.before.messages[k]
        /\ conversation.selected_message
               = Some(Len(conversation.messages) - 1)

\* the concatenation of the payloads of a sequence of events
RECURSIVE Concat(_)
Concat(events) ==
    IF events = << >> THEN ""
    ELSE Concat(SubSeq(events, 1, Len(events) - 1)) \o events[Len(events)].data

IsText(e) == e.event = "output"
IsStream(a) == a.type = "StreamMessage"
IsPrefix(p, q) == Len(p) <= Len(q) /\ SubSeq(q, 1, Len(p)) = p

\* an action of task s is still in the channel
Pending(s) == \E i \in 1..Len(queue) : queue[i].sid = s

\* C7: a session whose stream yields the text events t1..tk and then done
\* sends exactly k StreamMessage actions, the j-th with content t1 ++ .. ++ tj,
\* the dispatcher applies them in that order, and the task reads and sends
\* nothing after done.
C7_StreamingSession ==
    \A s \in 1..Len(tasks) :
        LET t == tasks[s]
            texts == SelectSeq(t.events, IsText)
            sent == SelectSeq(t.emitted, IsStream)
            seen == SelectSeq(observed[s], IsStream) IN
        /\ Len(sent) = Len(texts)
        /\ \A j \in 1..Len(sent) :
               sent[j] = Action("StreamMessage",
                                Some(Message("Assistant",
                                             Concat(SubSeq(texts, 1, j)),
                                             None, t.model)),
                                "", s)
        /\ \A i \in 1..Len(t.events) :
               t.events[i].event = "done" => i = Len(t.events) /\ t.pc = "finished"
        /\ IsPrefix(seen, sent)
        /\ (t.pc = "finished" /\ ~Pending(s)) => seen = sent

\* the stream "a", "b", done: StreamMessage "a" then "ab" applied, no more
C7_Witness ==
    \E s \in 1..Len(tasks) :
        /\ tasks[s].events = <<[event |-> "output", data |-> "a"],
                               [event |-> "output", data |-> "b"],
                               [event |-> "done", data |-> ""]>>
        /\ ~Pending(s)
        /\ LET seen == SelectSeq(observed[s], IsStream) IN
           /\ Len(seen) = 2
           /\ seen[1].message[1].content = "a"
           /\ seen[2].message[1].content = "ab"

\* C8: a SendMessage with a model M makes the task send ReceiveMessage(the
\* user message), then ReceiveMessage(Assistant, "", Starting, M), then only
\* StreamMessage actions; the placeholder is sent before the provider is
\* called, and the dispatcher applies the actions in the order sent.
C8_SendOrder ==
    /\ Applied("SendMessage") =>
           /\ tasks[Len(tasks)].message = last.action.message[1]
           /\ tasks[Len(tasks)].model = last.action.message[1].model
    /\ \A s \in 1..Len(tasks) :
           LET t == tasks[s] IN
           t.model # None =>
               /\ Len(t.emitted) >= 1 =>
                      t.emitted[1] = Action("ReceiveMessage", Some(t.message), "", s)
               /\ Len(t.emitted) >= 2 =>
                      t.emitted[2] =
                          Action("ReceiveMessage",
                                 Some(Message("Assistant", "", Some("Starting"),
                                              t.model)),
                                 "", s)
               /\ \A j \in 3..Len(t.emitted) : IsStream(t.emitted[j])
               /\ t.history # None => Len(t.emitted) >= 2
               /\ IsPrefix(observed[s], t.emitted)

\* user message, placeholder and a StreamMessage of one session applied
C8_Witness ==
    \E s \in 1..Len(tasks) :
        /\ tasks[s].model = Some("m1")
        /\ Len(observed[s]) >= 3
        /\ observed[s][2].message[1].status = Some("Starting")
        /\ IsStream(observed[s][3])

\* C9: when the provider call fails or the stream yields an error, the
\* session's Assistant message gets status Failed and keeps the content
\* accumulated so far.  Stated for a session nothing else interferes with,
\* once the task has ended and all its actions are applied.
C9_FailureSurfacesFailed ==
    \A s \in 1..Len(tasks) :
        (tasks[s].pc = "panicked" /\ ~Pending(s) /\ inputs = 1
            /\ dispatcher = "running")
        => LET m == conversation.messages[Len(conversation.messages)] IN
           /\ m.role = "Assistant"
           /\ m.content = tasks[s].content
           /\ m.status = Some("Failed")

\* C10: no action and no outcome of a task ends the dispatcher.
C10_DispatcherKeepsServing == dispatcher = "running"

\* C11: the history passed to the completion provider is the
\* conversation's messages as they were when the SendMessage was applied,
\* followed by the user message just sent, whatever the dispatcher has
\* applied since; and the live Conversation changes only in a step in which
\* the dispatcher takes an action off the channel.
C11_SnapshotHistory ==
    /\ [](\A s \in 1..Len(tasks) :
            tasks[s].history # None =>
                tasks[s].history[1]
                    = Append(tasks[s].snapshot, tasks[s].message))
    /\ [][conversation' # conversation
              => (queue # << >> /\ queue' = Tail(queue))]_vars

\* the provider was called with a non-empty earlier history after the live
\* conversation had already moved away from it
C11_Witness ==
    \E s \in 1..Len(tasks) :
        /\ tasks[s].history # None
        /\ Len(tasks[s].snapshot) >= 1
        /\ Len(observed[s]) = 0
        /\ conversation.messages # tasks[s].snapshot

\* C12: a StreamMessage of a session replaces that session's own Assistant
\* message: the element it overwrites is the session's placeholder or a
\* message the session streamed earlier, never a User message, another
\* session's message or nothing at all.
C12_StreamReplacesOwnMessage ==
    Applied("StreamMessage") =>
        LET s == last.action.sid
            before == last.before.messages IN
        /\ dispatcher = "running"
        /\ Len(before) >= 1
        /\ before[Len(before)].role = "Assistant"
        /\ \E j \in 2..(Len(observed[s]) - 1) :
               observed[s][j].message[1] = before[Len(before)]

\* C13: with N >= 1 messages, select_next_message moves the selection i to
\* i + 1 when i + 1 < N and leaves it otherwise, select_prev_message moves
\* it to i - 1 when i > 0 and leaves it at 0 otherwise, both select 0 when
\* nothing was selected, and neither changes messages.
C13_SelectMovesByOne ==
    LET before == last.before
        N == Len(before.messages)
        i == before.selected_message[1] IN
    /\ (Applied("select_next_message") /\ N >= 1) =>
           /\ dispatcher = "running"
           /\ conversation.messages = before.messages
           /\ conversation.selected_message =
                  IF before.selected_message = None THEN Some(0)
                  ELSE IF i + 1 < N THEN Some(i + 1) ELSE Some(i)
    /\ (Applied("select_prev_message") /\ N >= 1) =>
           /\ dispatcher = "running"
           /\ conversation.messages = before.messages
           /\ conversation.selected_message =
                  IF before.selected_message = None THEN Some(0)
                  ELSE IF i > 0 THEN Some(i - 1) ELSE Some(0)

\* the spec's scenario: select_prev_message with no prior selection gives 0
C13_Witness ==
    /\ Applied("select_prev_message")
    /\ Len(last.before.messages) >= 1
    /\ last.before.selected_message = None
    /\ conversation.selected_message = Some(0)

\* C14: get_selected_message returns a copy of messages[selected_message]
\* when the selection exists and is in range, an error (no panic) when
\* there is no selection or the index is no position of messages, and
\* changes neither messages nor selected_message.
C14_GetSelected ==
    Applied("get_selected_message") =>
        LET before == last.before
            result == last.result[1] IN
        /\ dispatcher = "running"
        /\ conversation = before
        /\ IF before.selected_message # None
              /\ before.selected_message[1] < Len(before.messages)
           THEN /\ result.ok
                /\ result.message
                       = Some(before.messages[before.selected_message[1] + 1])
           ELSE ~result.ok

\* a stale index (Some(0) on an emptied Conversation) gives the error
C14_Witness ==
    /\ Applied("get_selected_message")
    /\ dispatcher = "running"
    /\ last.before.messages = << >>
    /\ last.before.selected_message = Some(0)
    /\ ~last.result[1].ok

\* C15: the focus state after SwitchMode(mode) depends on mode alone:
\* Viewer gives Focused, ActiveViewer gives Active, ModelSelector, Input and
\* ActiveInput give Unfocused, from whichever state the Viewer was in.
C15_FocusDependsOnMode ==
    Applied("SwitchMode") =>
        /\ dispatcher = "running"
        /\ last.action.mode = "Viewer" => state = "Focused"
        /\ last.action.mode = "ActiveViewer" => state = "Active"
        /\ last.action.mode \in {"ModelSelector", "Input", "ActiveInput"}
               => state = "Unfocused"

\* a switch to Input taken while the Viewer was Active
C15_Witness ==
    /\ Applied("SwitchMode")
    /\ last.state = "Active"
    /\ last.action.mode = "Input"
    /\ state = "Unfocused"

\* C16: a SwitchMode action, hooks included, leaves messages and
\* selected_message as they were; every message action, SendMessage and
\* every conversation-list action leaves the focus state as it was.
C16_FocusFrame ==
    /\ Applied("SwitchMode") =>
           /\ dispatcher = "running"
           /\ conversation = last.before
    /\ last.action.type \in
           {"ReceiveMessage", "StreamMessage", "SelectNextMessage",
            "SelectPreviousMessage", "DeleteSelectedMessage", "SendMessage"}
           \cup OtherActions
       => state = last.state

\* a switch to ModelSelector (which calls unfocus) with a message selected
C16_Witness ==
    /\ Applied("SwitchMode")
    /\ last.action.mode = "ModelSelector"
    /\ last.state = "Focused"
    /\ Len(conversation.messages) >= 1
    /\ conversation.selected_message # None

\* C18: a SendMessage whose message has no model makes the task send one
\* action, ReceiveMessage(the user message): no placeholder, no call of the
\* completion provider, no StreamMessage.
C18_NoModelOneAction ==
    \A s \in 1..Len(tasks) :
        tasks[s].model = None =>
            /\ tasks[s].pc \in {"send_user", "finished"}
            /\ tasks[s].history = None
            /\ tasks[s].events = << >>
            /\ tasks[s].emitted =
                   IF tasks[s].pc = "send_user" THEN << >>
                   ELSE <<Action("ReceiveMessage", Some(tasks[s].message),
                                 "", s)>>
            /\ IsPrefix(observed[s], tasks[s].emitted)

\* a send without a model whose single action has been applied
C18_Witness ==
    \E s \in 1..Len(tasks) :
        /\ tasks[s].model = None
        /\ tasks[s].pc = "finished"
        /\ Len(observed[s]) = 1
        /\ observed[s][1].message[1].role = "User"

\* C17: there is no cancellation: whatever the dispatcher applies in the
\* meantime, a task that has not ended, or has actions waiting in the
\* channel, can always go on: the system never stops before the task has
\* ended and all its actions are applied.
C17_PipelineRunsToEnd ==
    \A s \in 1..Len(tasks) :
        (~Ended(s) \/ Pending(s)) => ENABLED Next

\* C19: one undisturbed session: SendMessage(u, model M) applied to the
\* messages H, a stream of k >= 1 text events t1..tk and then done, and the
\* channel drained, leave messages = H ++ [u, a] with a the Assistant
\* message of content t1 ++ .. ++ tk and model M, and a selected.
C19_SessionResult ==
    LET s == Len(tasks) IN
    (/\ s >= 1
     /\ tasks[s].model # None
     /\ tasks[s].pc = "finished"
     /\ ~Pending(s)
     /\ Len(tasks[s].events) >= 2
     /\ tasks[s].events[Len(tasks[s].events)].event = "done")
    => LET t == tasks[s]
           H == t.snapshot
           a == Message("Assistant", Concat(SelectSeq(t.events, IsText)),
                        None, t.model) IN
       /\ dispatcher = "running"
       /\ conversation.messages = H \o <<t.message, a>>
       /\ Len(conversation.messages) = Len(H) + 2
       /\ conversation.selected_message = Some(Len(H) + 1)

\* a second session of two text events on top of a finished first one
C19_Witness ==
    /\ Len(tasks) = 2
    /\ tasks[2].pc = "finished"
    /\ ~Pending(2)
    /\ Len(tasks[2].snapshot) = 2
    /\ tasks[2].events = <<[event |-> "output", data |-> "a"],
                           [event |-> "output", data |-> "b"],
                           [event |-> "done", data |-> ""]>>
    /\ Len(conversation.messages) = 4
    /\ conversation.messages[4].content = "ab"

\* C20: once a session's stream has ended with done, after any number
\* k >= 0 of text events, and all its actions are applied, the session's
\* Assistant message has status None, not Starting.
C20_FinishedNotStarting ==
    LET s == Len(tasks) IN
    (/\ s >= 1
     /\ tasks[s].model # None
     /\ tasks[s].pc = "finished"
     /\ ~Pending(s)
     /\ Len(tasks[s].events) >= 1
     /\ tasks[s].events[Len(tasks[s].events)].event = "done")
    => LET m == conversation.messages[Len(conversation.messages)] IN
       /\ m.role = "Assistant"
       /\ m.status = None

====
